---------------------------- MODULE Spec2Model ----------------------------
(***************************************************************************)
(* Phone usage detection: the interaction-and-temporal-state engine.       *)
(*                                                                         *)
(*   HandPhoneAnalyzer  (src/src/hand_phone_analyzer.py)                   *)
(*   VideoProcessor     (src/src/video_processor.py)                       *)
(*   geometry helpers   (src/src/utils.py)                                 *)
(*   tunables           (src/src/config.py)                                *)
(*                                                                         *)
(* Python floats are modelled by exact arithmetic: wall-clock readings and *)
(* hold durations are integers (clock ticks), frame timestamps and         *)
(* normalized hand coordinates are exact fractions [num, den].             *)
(***************************************************************************)
EXTENDS Integers, Sequences, FiniteSets, TLC

(***************************************************************************)
(* config.py                                                               *)
(***************************************************************************)
PHONE_HAND_DISTANCE_THRESHOLD == 200
MIN_MOTION_FRAMES == 3
MAX_INACTIVE_FRAMES == 10
MAX_NUM_HANDS == 2
CLASS_TAP_TO_PAY == 0
CLASS_PHONE == 1

(***************************************************************************)
(* Bounds of the model                                                     *)
(***************************************************************************)
\* largest wall-clock reading time.time() returns in the timer runs
MaxClock == 6
\* number of direct update_phone_timer calls in the timer runs
MaxTimerCalls == 7
\* number of frames of a video whose frames lack phones or hands
MaxSparseFrames == 4
\* number of frames of a video in which no phone is ever held
MaxIdleFrames == 31
\* number of frames of a video in the video runs
MaxFrames == 9
\* number of process_frame calls in the classification runs
MaxClassifyFrames == 1
\* number of process_frame calls in the long tracking runs
MaxTrackFrames == 22
\* number of frames of a long tracking run in which anything is detected
MaxBusyFrames == 2
\* number of get_usage_summary calls after process_video
MaxSummaryCalls == 2

(***************************************************************************)
(* Python values                                                           *)
(***************************************************************************)
\* Python's None, and an optional value that is present
None == <<>>
Some(v) == <<v>>

\* truth value of an optional float: None and 0.0 are both falsy
Truthy(opt) == opt # None /\ opt[1] # 0

\* exact fractions standing for Python floats
Frac(n, d) == [num |-> n, den |-> d]
FracOfInt(n) == Frac(n, 1)
FracAdd(a, b) == IF a.den = b.den THEN Frac(a.num + b.num, a.den)
                 ELSE Frac(a.num * b.den + b.num * a.den, a.den * b.den)
FracSub(a, b) == IF a.den = b.den THEN Frac(a.num - b.num, a.den)
                 ELSE Frac(a.num * b.den - b.num * a.den, a.den * b.den)
FracMul(a, b) == Frac(a.num * b.num, a.den * b.den)
FracLeq(a, b) == a.num * b.den <= b.num * a.den
FracEq(a, b) == a.num * b.den = b.num * a.den
FracLess(a, b) == a.num * b.den < b.num * a.den

\* any(phone.get('is_being_held', False) for phone in phones)
AnyHeld(devs) == \E i \in 1..Len(devs) : devs[i].is_being_held

\* Python's lst[-n:] for n >= 1
LastN(s, n) == IF Len(s) <= n THEN s ELSE SubSeq(s, Len(s) - n + 1, Len(s))

Max(a, b) == IF a >= b THEN a ELSE b


(***************************************************************************)
(* utils.py: geometry                                                      *)
(***************************************************************************)
\* The square of the Euclidean distance of two points. np.sqrt is strictly
\* increasing on the non-negative reals, so the code's comparison
\* sqrt(d2) <= T is made here as d2 <= T^2.
calculate_distance(point1, point2) ==
    LET dx == FracSub(point1[1], point2[1])
        dy == FracSub(point1[2], point2[2])
    IN  FracAdd(FracMul(dx, dx), FracMul(dy, dy))

get_phone_center(bbox) ==
    <<Frac(bbox[1] + bbox[3], 2), Frac(bbox[2] + bbox[4], 2)>>

\* is_phone_hand_close as it would be if the shape were unpacked as (w, h)
is_phone_hand_close_swapped_axes(phone_center, hand_center, frame_shape) ==
    LET w == frame_shape[1]
        h == frame_shape[2]
        hand_pixel == <<FracMul(hand_center[1], FracOfInt(w)),
                        FracMul(hand_center[2], FracOfInt(h))>>
    IN  FracLeq(calculate_distance(phone_center, hand_pixel),
                FracOfInt(PHONE_HAND_DISTANCE_THRESHOLD * PHONE_HAND_DISTANCE_THRESHOLD))

\* frame_shape is numpy's (rows, columns): h, w = frame_shape[:2]
is_phone_hand_close(phone_center, hand_center, frame_shape) ==
    LET h == frame_shape[1]
        w == frame_shape[2]
        phone_pixel == phone_center
        hand_pixel == <<FracMul(hand_center[1], FracOfInt(w)),
                        FracMul(hand_center[2], FracOfInt(h))>>
        distance == calculate_distance(phone_pixel, hand_pixel)
    IN  FracLeq(distance,
                FracOfInt(PHONE_HAND_DISTANCE_THRESHOLD * PHONE_HAND_DISTANCE_THRESHOLD))

(***************************************************************************)
(* The detectors' output for one frame (external input).  A frame is       *)
(* [boxes: the YOLO boxes in detector order, hands: the MediaPipe hands].  *)
(***************************************************************************)
BoxA == [bbox |-> <<100, 100, 300, 300>>, class_id |-> CLASS_PHONE]
BoxB == [bbox |-> <<500, 100, 700, 300>>, class_id |-> CLASS_PHONE]
BoxC == [bbox |-> <<600, 200, 800, 400>>, class_id |-> CLASS_TAP_TO_PAY]
Boxes == {BoxA, BoxB, BoxC}

HandNearA == [center |-> <<Frac(1, 4), Frac(1, 2)>>]
HandMid == [center |-> <<Frac(1, 2), Frac(1, 2)>>]
HandCorner == [center |-> <<Frac(1, 1), Frac(1, 1)>>]
Hands == {HandNearA, HandMid, HandCorner}

FrameShapes == {<<400, 800>>, <<800, 400>>}
FpsChoices == {15, 30}

SeqsUpTo(S, n) == UNION {[1..k -> S] : k \in 0..n}

\* every frame with at most two boxes and at most MAX_NUM_HANDS hands
AllFrames == [boxes : SeqsUpTo(Boxes, 2), hands : SeqsUpTo(Hands, MAX_NUM_HANDS)]

EmptyFrame == [boxes |-> <<>>, hands |-> <<>>]
HeldFrame == [boxes |-> <<BoxA>>, hands |-> <<HandNearA>>]
TapFrame == [boxes |-> <<BoxC, BoxA>>, hands |-> <<HandCorner>>]
\* the frames of the video runs: nothing detected, a phone in a hand, and a
\* tap-to-pay device in a hand next to a phone nobody holds
Frames == {EmptyFrame, HeldFrame, TapFrame}

PhoneOnlyFrame == [boxes |-> <<BoxA>>, hands |-> <<>>]
HandOnlyFrame == [boxes |-> <<>>, hands |-> <<HandNearA>>]
TapOnlyFrame == [boxes |-> <<BoxC>>, hands |-> <<HandCorner>>]
\* the frames of the sparse video runs: a phone in a hand, and the frames in
\* which the phones, the hands or both are missing
SparseFrames == {EmptyFrame, HeldFrame, PhoneOnlyFrame, HandOnlyFrame, TapOnlyFrame}

\* the frames of the idle video runs: no phone is held in any of them
IdleFrames == {EmptyFrame, PhoneOnlyFrame, TapOnlyFrame}

TwoPhonesFrame == [boxes |-> <<BoxB, BoxA>>, hands |-> <<HandNearA>>]
\* the frames of the tracking runs: nothing detected, a phone nobody holds,
\* and two phones of which the second in detector order is held
TrackFrames == {EmptyFrame, PhoneOnlyFrame, TwoPhonesFrame}

(***************************************************************************)
(* HandPhoneAnalyzer: detection and classification                         *)
(***************************************************************************)
\* detect_devices as it would be if the phone list were not restricted to
\* class 1: every detected device is in it
detect_devices_unsplit(frame) ==
    LET device_info(b) == [bbox |-> b.bbox,
                           center |-> get_phone_center(b.bbox),
                           class_id |-> b.class_id]
        infos == [i \in 1..Len(frame.boxes) |-> device_info(frame.boxes[i])]
        IsTap(d) == d.class_id = CLASS_TAP_TO_PAY
    IN  [phones |-> infos,
         tap_to_pay_devices |-> SelectSeq(infos, IsTap)]

detect_devices(frame) ==
    LET device_info(b) == [bbox |-> b.bbox,
                           center |-> get_phone_center(b.bbox),
                           class_id |-> b.class_id]
        infos == [i \in 1..Len(frame.boxes) |-> device_info(frame.boxes[i])]
        IsPhone(d) == d.class_id = CLASS_PHONE
        IsTap(d) == d.class_id = CLASS_TAP_TO_PAY
    IN  [phones |-> SelectSeq(infos, IsPhone),
         tap_to_pay_devices |-> SelectSeq(infos, IsTap)]

detect_hands(frame) == frame.hands

\* the inner loop over the hands, from hand i on, with its break
RECURSIVE HandLoop(_, _, _, _)
HandLoop(center, hands, frame_shape, i) ==
    IF i > Len(hands) THEN FALSE
    ELSE IF is_phone_hand_close(center, hands[i].center, frame_shape) THEN TRUE
    ELSE HandLoop(center, hands, frame_shape, i + 1)

\* analyze_phone_hand_interaction as it would be if is_active meant that the
\* phone is detected
analyze_phone_hand_interaction_active_when_seen(phs, hands, frame_shape) ==
    [i \in 1..Len(phs) |->
        LET is_being_held == HandLoop(phs[i].center, hands, frame_shape, 1)
        IN  [bbox |-> phs[i].bbox, center |-> phs[i].center,
             class_id |-> phs[i].class_id,
             is_being_held |-> is_being_held,
             is_active |-> TRUE]]

\* analyze_phone_hand_interaction as it would be if a phone counted as held
\* when no hand is detected at all
analyze_phone_hand_interaction_held_without_hands(phs, hands, frame_shape) ==
    [i \in 1..Len(phs) |->
        LET is_being_held ==
                hands = <<>> \/ HandLoop(phs[i].center, hands, frame_shape, 1)
        IN  [bbox |-> phs[i].bbox, center |-> phs[i].center,
             class_id |-> phs[i].class_id,
             is_being_held |-> is_being_held,
             is_active |-> is_being_held]]

analyze_phone_hand_interaction(phs, hands, frame_shape) ==
    [i \in 1..Len(phs) |->
        LET is_being_held == HandLoop(phs[i].center, hands, frame_shape, 1)
        IN  [bbox |-> phs[i].bbox, center |-> phs[i].center,
             class_id |-> phs[i].class_id,
             is_being_held |-> is_being_held,
             is_active |-> is_being_held]]

analyze_tap_to_pay_hand_interaction(devs, hands, frame_shape) ==
    [i \in 1..Len(devs) |->
        LET is_being_held == HandLoop(devs[i].center, hands, frame_shape, 1)
        IN  [bbox |-> devs[i].bbox, center |-> devs[i].center,
             class_id |-> devs[i].class_id,
             is_being_held |-> is_being_held,
             is_active |-> is_being_held]]

(***************************************************************************)
(* State                                                                   *)
(***************************************************************************)
VARIABLES
    \* HandPhoneAnalyzer.__init__
    phone_positions,          \* centers of the first phone per frame, or None
    active_usage_history,     \* per-frame "some phone is held"
    phone_hold_start_time,    \* None or Some(clock reading)
    phone_hold_duration,      \* accumulated duration of the finished holds
    current_phone_timer,      \* duration of the running hold
    is_phone_being_held,
    \* VideoProcessor.__init__ and the locals of process_video
    usage_data,               \* one record per processed frame
    frame_idx,
    fps,
    frame_shape,
    pc,                       \* "loop": reading frames, "returned": process_video is over
    \* what the last process_frame call returned
    phones,
    tap_to_pay_devices,
    hands,
    generate_report,          \* config.GENERATE_REPORT, cleared by --no-report
    report,                   \* None or Some(what save_report wrote)
    stats,                    \* None or Some(the final get_usage_statistics())
    \* what the last get_usage_summary call returned
    summary,
    \* observers of the run (no program state)
    clock,                    \* None or Some(the last reading of time.time())
    clock_ok,                 \* no reading so far was below the one before it
    timer_calls,              \* number of update_phone_timer calls
    held_input,               \* the held input of the last update_phone_timer call
    script_pos,               \* calls matched of HoldScript, -1 once off it
    appended_positions,       \* everything ever appended to phone_positions
    appended_active,          \* everything ever appended to active_usage_history
    summary_calls,            \* number of get_usage_summary calls
    busy_frames               \* number of frames in which anything was detected

timerVars == <<phone_hold_start_time, phone_hold_duration, current_phone_timer,
               is_phone_being_held>>
timerObs == <<clock, clock_ok, timer_calls, held_input, script_pos>>
trackVars == <<phone_positions, active_usage_history>>
trackObs == <<appended_positions, appended_active>>
analyzerVars == <<timerVars, trackVars>>
frameOut == <<phones, tap_to_pay_devices, hands>>
videoVars == <<usage_data, frame_idx, fps, frame_shape, pc, generate_report,
               report, stats>>
vars == <<analyzerVars, videoVars, frameOut, summary, timerObs, trackObs,
          summary_calls, busy_frames>>

\* the value of `summary` before get_usage_summary was ever called
NotCalled == [called |-> FALSE]

InitAnalyzer ==
    /\ phone_positions = <<>>
    /\ active_usage_history = <<>>
    /\ phone_hold_start_time = None
    /\ phone_hold_duration = 0
    /\ current_phone_timer = 0
    /\ is_phone_being_held = FALSE

InitObservers ==
    /\ clock = None
    /\ clock_ok = TRUE
    /\ timer_calls = 0
    /\ held_input = FALSE
    /\ script_pos = 0
    /\ appended_positions = <<>>
    /\ appended_active = <<>>
    /\ summary_calls = 0
    /\ busy_frames = 0

InitProcessor ==
    /\ usage_data = <<>>
    /\ frame_idx = 0
    /\ pc = "loop"
    /\ phones = <<>>
    /\ tap_to_pay_devices = <<>>
    /\ hands = <<>>
    /\ summary = NotCalled
    /\ report = None
    /\ stats = None

\* a fresh VideoProcessor with the shipped configuration, on a video of
\* 800 x 400 pixels at 30 frames per second
Init ==
    /\ InitAnalyzer
    /\ InitProcessor
    /\ InitObservers
    /\ fps = 30
    /\ frame_shape = <<400, 800>>
    /\ generate_report = TRUE

\* a fresh VideoProcessor on a video of either orientation and frame rate,
\* with or without --no-report
InitAnyVideo ==
    /\ InitAnalyzer
    /\ InitProcessor
    /\ InitObservers
    /\ fps \in FpsChoices
    /\ frame_shape \in FrameShapes
    /\ generate_report \in BOOLEAN

(***************************************************************************)
(* HandPhoneAnalyzer: the hold timer                                       *)
(***************************************************************************)
\* update_phone_timer as it would be if the release did not clear
\* phone_hold_start_time
update_phone_timer_keeping_start(phs, t) ==
    IF AnyHeld(phs)
    THEN IF ~is_phone_being_held
         THEN /\ phone_hold_start_time' = Some(t)
              /\ is_phone_being_held' = TRUE
              /\ current_phone_timer' = 0
              /\ UNCHANGED phone_hold_duration
         ELSE /\ current_phone_timer' = t - phone_hold_start_time[1]
              /\ UNCHANGED <<phone_hold_start_time, phone_hold_duration,
                             is_phone_being_held>>
    ELSE IF is_phone_being_held
         THEN /\ phone_hold_duration' = phone_hold_duration + current_phone_timer
              /\ is_phone_being_held' = FALSE
              /\ current_phone_timer' = 0
              /\ UNCHANGED phone_hold_start_time
         ELSE UNCHANGED timerVars

\* update_phone_timer as it would be if the release zeroed the timer without
\* adding it to the accumulated duration
update_phone_timer_dropping_hold(phs, t) ==
    IF AnyHeld(phs)
    THEN IF ~is_phone_being_held
         THEN /\ phone_hold_start_time' = Some(t)
              /\ is_phone_being_held' = TRUE
              /\ current_phone_timer' = 0
              /\ UNCHANGED phone_hold_duration
         ELSE /\ current_phone_timer' = t - phone_hold_start_time[1]
              /\ UNCHANGED <<phone_hold_start_time, phone_hold_duration,
                             is_phone_being_held>>
    ELSE IF is_phone_being_held
         THEN /\ is_phone_being_held' = FALSE
              /\ current_phone_timer' = 0
              /\ phone_hold_start_time' = None
              /\ UNCHANGED phone_hold_duration
         ELSE UNCHANGED timerVars

\* update_phone_timer as it would be if the release committed the time up to
\* the releasing call instead of the last recomputed current_phone_timer
update_phone_timer_commit_at_release(phs, t) ==
    IF AnyHeld(phs)
    THEN IF ~is_phone_being_held
         THEN /\ phone_hold_start_time' = Some(t)
              /\ is_phone_being_held' = TRUE
              /\ current_phone_timer' = 0
              /\ UNCHANGED phone_hold_duration
         ELSE /\ current_phone_timer' = t - phone_hold_start_time[1]
              /\ UNCHANGED <<phone_hold_start_time, phone_hold_duration,
                             is_phone_being_held>>
    ELSE IF is_phone_being_held
         THEN /\ phone_hold_duration' =
                    phone_hold_duration + (t - phone_hold_start_time[1])
              /\ is_phone_being_held' = FALSE
              /\ current_phone_timer' = 0
              /\ phone_hold_start_time' = None
         ELSE UNCHANGED timerVars

\* update_phone_timer as it would be if the release left hold_start set
update_phone_timer_stale_start(phs, t) ==
    IF AnyHeld(phs)
    THEN IF ~is_phone_being_held
         THEN /\ phone_hold_start_time' = Some(t)
              /\ is_phone_being_held' = TRUE
              /\ current_phone_timer' = 0
              /\ UNCHANGED phone_hold_duration
         ELSE /\ current_phone_timer' = t - phone_hold_start_time[1]
              /\ UNCHANGED <<phone_hold_start_time, phone_hold_duration,
                             is_phone_being_held>>
    ELSE IF is_phone_being_held
         THEN /\ phone_hold_duration' = phone_hold_duration + current_phone_timer
              /\ is_phone_being_held' = FALSE
              /\ current_phone_timer' = 0
              /\ UNCHANGED phone_hold_start_time
         ELSE UNCHANGED timerVars

\* update_phone_timer as it would be if a continued hold were added to the
\* accumulated duration on every call instead of at the release
update_phone_timer_accumulating(phs, t) ==
    IF AnyHeld(phs)
    THEN IF ~is_phone_being_held
         THEN /\ phone_hold_start_time' = Some(t)
              /\ is_phone_being_held' = TRUE
              /\ current_phone_timer' = 0
              /\ UNCHANGED phone_hold_duration
         ELSE /\ current_phone_timer' = t - phone_hold_start_time[1]
              /\ phone_hold_duration' =
                    phone_hold_duration + (t - phone_hold_start_time[1])
              /\ UNCHANGED <<phone_hold_start_time, is_phone_being_held>>
    ELSE IF is_phone_being_held
         THEN /\ is_phone_being_held' = FALSE
              /\ current_phone_timer' = 0
              /\ phone_hold_start_time' = None
              /\ UNCHANGED phone_hold_duration
         ELSE UNCHANGED timerVars

\* update_phone_timer(phones, fps), with t the value time.time() returns
update_phone_timer(phs, t) ==
    LET phone_currently_held == AnyHeld(phs)
    IN  IF phone_currently_held
        THEN IF ~is_phone_being_held
             THEN \* phone just started being held
                  /\ phone_hold_start_time' = Some(t)
                  /\ is_phone_being_held' = TRUE
                  /\ current_phone_timer' = 0
                  /\ UNCHANGED phone_hold_duration
             ELSE \* phone continues to be held
                  /\ current_phone_timer' = t - phone_hold_start_time[1]
                  /\ UNCHANGED <<phone_hold_start_time, phone_hold_duration,
                                 is_phone_being_held>>
        ELSE IF is_phone_being_held
             THEN \* phone was just released
                  /\ phone_hold_duration' = phone_hold_duration + current_phone_timer
                  /\ is_phone_being_held' = FALSE
                  /\ current_phone_timer' = 0
                  /\ phone_hold_start_time' = None
             ELSE UNCHANGED timerVars

get_phone_hold_duration ==
    IF is_phone_being_held /\ Truthy(phone_hold_start_time)
    THEN current_phone_timer
    ELSE 0

get_total_phone_hold_duration ==
    LET total == phone_hold_duration
    IN  IF is_phone_being_held /\ Truthy(phone_hold_start_time)
        THEN total + current_phone_timer
        ELSE total

\* the worked example of the hold timer: <<held, clock>> per call
HoldScript == << <<FALSE, 0>>, <<TRUE, 1>>, <<TRUE, 2>>, <<TRUE, 3>>,
                 <<FALSE, 4>>, <<TRUE, 5>>, <<FALSE, 6>> >>

\* what the observers record of an update_phone_timer call
ObserveTimerCall(phs, t) ==
    /\ clock' = Some(t)
    /\ clock_ok' = (clock_ok /\ (clock = None \/ t >= clock[1]))
    /\ timer_calls' = timer_calls + 1
    /\ held_input' = AnyHeld(phs)
    /\ script_pos' = IF /\ script_pos >= 0
                        /\ script_pos < Len(HoldScript)
                        /\ HoldScript[script_pos + 1] = <<AnyHeld(phs), t>>
                     THEN script_pos + 1
                     ELSE -1

\* the classified phone lists a caller hands to update_phone_timer
TimerInputs ==
    {analyze_phone_hand_interaction(detect_devices(f).phones, detect_hands(f),
                                    frame_shape) : f \in Frames}

\* a direct call analyzer.update_phone_timer(phones, fps) at any clock reading
UpdatePhoneTimerCall ==
    /\ timer_calls < MaxTimerCalls
    /\ \E phs \in TimerInputs, t \in 0..MaxClock :
          /\ update_phone_timer(phs, t)
          /\ ObserveTimerCall(phs, t)
    /\ UNCHANGED <<trackVars, videoVars, frameOut, summary, trackObs,
                   summary_calls, busy_frames>>

NextTimer == UpdatePhoneTimerCall

SpecTimer == Init /\ [][NextTimer]_vars

(***************************************************************************)
(* HandPhoneAnalyzer: tracking history and temporal filter                 *)
(***************************************************************************)
\* the position update_tracking appends for a phone list
PositionOf(phs) == IF phs # <<>> THEN phs[1].center ELSE None

\* update_tracking as it would be if the position tracked were that of the
\* first held phone, and None when no phone is held
update_tracking_held_position(phs) ==
    LET max_history == Max(MIN_MOTION_FRAMES, MAX_INACTIVE_FRAMES) * 2
        IsHeld(d) == d.is_being_held
        positions == Append(phone_positions, PositionOf(SelectSeq(phs, IsHeld)))
        is_active == AnyHeld(phs)
        history == Append(active_usage_history, is_active)
    IN  /\ phone_positions' =
              IF Len(positions) > max_history
              THEN LastN(positions, max_history)
              ELSE positions
        /\ active_usage_history' =
              IF Len(history) > max_history
              THEN LastN(history, max_history)
              ELSE history

\* update_tracking as it would be if the trim kept the oldest entries
\* (lst[:max_history]) instead of the most recent ones
update_tracking_keep_oldest(phs) ==
    LET max_history == Max(MIN_MOTION_FRAMES, MAX_INACTIVE_FRAMES) * 2
        positions == Append(phone_positions, PositionOf(phs))
        history == Append(active_usage_history, AnyHeld(phs))
    IN  /\ phone_positions' =
              IF Len(positions) > max_history
              THEN SubSeq(positions, 1, max_history)
              ELSE positions
        /\ active_usage_history' =
              IF Len(history) > max_history
              THEN SubSeq(history, 1, max_history)
              ELSE history

\* update_tracking(phones, frame_idx); frame_idx is not used by the code
update_tracking(phs) ==
    LET max_history == Max(MIN_MOTION_FRAMES, MAX_INACTIVE_FRAMES) * 2
        positions == Append(phone_positions, PositionOf(phs))
        is_active == AnyHeld(phs)
        history == Append(active_usage_history, is_active)
    IN  /\ phone_positions' =
              IF Len(positions) > max_history
              THEN LastN(positions, max_history)
              ELSE positions
        /\ active_usage_history' =
              IF Len(history) > max_history
              THEN LastN(history, max_history)
              ELSE history

\* what the observers record of an update_tracking call
ObserveTracking(phs) ==
    /\ appended_positions' = Append(appended_positions, PositionOf(phs))
    /\ appended_active' = Append(appended_active, AnyHeld(phs))

\* Python's sum over a list of booleans
RECURSIVE SumBool(_)
SumBool(s) == IF s = <<>> THEN 0
              ELSE (IF Head(s) THEN 1 ELSE 0) + SumBool(Tail(s))

\* apply_temporal_filtering as it would be with the aggressive rule the code
\* disabled: a held verdict is dropped until MIN_MOTION_FRAMES consecutive
\* entries of the history are active
apply_temporal_filtering_aggressive(phs, history) ==
    IF history = <<>> THEN phs
    ELSE IF SumBool(LastN(history, MIN_MOTION_FRAMES)) < MIN_MOTION_FRAMES
    THEN [i \in 1..Len(phs) |->
            [phs[i] EXCEPT !.is_being_held = FALSE, !.is_active = FALSE]]
    ELSE phs

\* apply_temporal_filtering as it would be if it bridged gaps: every phone is
\* marked held while the recent history shows activity
apply_temporal_filtering_bridging(phs, history) ==
    IF history = <<>> THEN phs
    ELSE IF SumBool(LastN(history, MAX_INACTIVE_FRAMES * 2)) > 0
    THEN [i \in 1..Len(phs) |->
            [phs[i] EXCEPT !.is_being_held = TRUE, !.is_active = TRUE]]
    ELSE phs

\* apply_temporal_filtering(phones), reading the history given
apply_temporal_filtering(phs, history) ==
    IF history = <<>> THEN phs
    ELSE IF Len(history) >= MAX_INACTIVE_FRAMES * 3
    THEN LET recent_active == LastN(history, MAX_INACTIVE_FRAMES * 2)
             recent_activity_rate == Frac(SumBool(recent_active), Len(recent_active))
         IN  IF FracEq(recent_activity_rate, FracOfInt(0)) /\ ~AnyHeld(phs)
             THEN [i \in 1..Len(phs) |->
                     [phs[i] EXCEPT !.is_being_held = FALSE, !.is_active = FALSE]]
             ELSE phs
    ELSE phs

\* process_frame as it would be if the history tracked the devices of both
\* classes while the timer followed the phones
process_frame_tracking_any_device(frame, t) ==
    LET detected == detect_devices(frame)
        hs == detect_hands(frame)
        ph == analyze_phone_hand_interaction(detected.phones, hs, frame_shape)
        tp == analyze_tap_to_pay_hand_interaction(detected.tap_to_pay_devices, hs,
                                                  frame_shape)
    IN  /\ update_phone_timer(ph, t)
        /\ update_tracking(ph \o tp)
        /\ phones' = apply_temporal_filtering(ph, active_usage_history')
        /\ tap_to_pay_devices' = tp
        /\ hands' = hs

\* process_frame(frame, frame_idx, fps), with t the value time.time() returns
process_frame(frame, t) ==
    LET detected == detect_devices(frame)
        hs == detect_hands(frame)
        ph == analyze_phone_hand_interaction(detected.phones, hs, frame_shape)
        tp == analyze_tap_to_pay_hand_interaction(detected.tap_to_pay_devices, hs,
                                                  frame_shape)
    IN  /\ update_phone_timer(ph, t)
        /\ update_tracking(ph)
        /\ phones' = apply_temporal_filtering(ph, active_usage_history')
        /\ tap_to_pay_devices' = tp
        /\ hands' = hs

\* what the observers record of a process_frame call
ObserveFrame(frame, t) ==
    LET ph == analyze_phone_hand_interaction(detect_devices(frame).phones,
                                             detect_hands(frame), frame_shape)
    IN  /\ ObserveTimerCall(ph, t)
        /\ ObserveTracking(ph)
        /\ busy_frames' = busy_frames + (IF frame = EmptyFrame THEN 0 ELSE 1)

get_usage_statistics ==
    IF active_usage_history = <<>>
    THEN [total_frames |-> 0, active_frames |-> 0,
          usage_percentage |-> FracOfInt(0),
          total_phone_hold_time |-> 0, current_phone_hold_time |-> 0]
    ELSE LET total_frames == Len(active_usage_history)
             active_frames == SumBool(active_usage_history)
         IN  [total_frames |-> total_frames, active_frames |-> active_frames,
              usage_percentage |-> Frac(active_frames * 100, total_frames),
              total_phone_hold_time |-> get_total_phone_hold_duration,
              current_phone_hold_time |-> get_phone_hold_duration]

(***************************************************************************)
(* VideoProcessor                                                          *)
(***************************************************************************)
\* the wall clock of a video run: one tick per frame, from 0
NextTick == IF clock = None THEN 0 ELSE clock[1] + 1

\* phone_details / tap_to_pay_details of a frame record
Details(devs) ==
    [i \in 1..Len(devs) |-> [bbox |-> devs[i].bbox,
                             is_being_held |-> devs[i].is_being_held]]

\* the turn of the loop as it would be if frame_idx were incremented before
\* the frame record is built
ProcessVideoFrame_counting_first(frame) ==
    /\ pc = "loop"
    /\ process_frame(frame, NextTick)
    /\ ObserveFrame(frame, NextTick)
    /\ usage_data' = Append(usage_data,
          [frame_idx |-> frame_idx + 1,
           timestamp |-> Frac(frame_idx + 1, fps),
           phones_detected |-> Len(phones'),
           tap_to_pay_detected |-> Len(tap_to_pay_devices'),
           hands_detected |-> Len(hands'),
           active_phone_usage |-> AnyHeld(phones'),
           tap_to_pay_usage |-> AnyHeld(tap_to_pay_devices'),
           phone_details |-> Details(phones'),
           tap_to_pay_details |-> Details(tap_to_pay_devices')])
    /\ frame_idx' = frame_idx + 1
    /\ UNCHANGED <<fps, frame_shape, pc, summary, summary_calls, report, stats,
                   generate_report>>

\* one turn of the loop of process_video on a frame the capture delivers
ProcessVideoFrame(frame) ==
    /\ pc = "loop"
    /\ process_frame(frame, NextTick)
    /\ ObserveFrame(frame, NextTick)
    /\ usage_data' = Append(usage_data,
          [frame_idx |-> frame_idx,
           timestamp |-> Frac(frame_idx, fps),
           phones_detected |-> Len(phones'),
           tap_to_pay_detected |-> Len(tap_to_pay_devices'),
           hands_detected |-> Len(hands'),
           active_phone_usage |-> AnyHeld(phones'),
           tap_to_pay_usage |-> AnyHeld(tap_to_pay_devices'),
           phone_details |-> Details(phones'),
           tap_to_pay_details |-> Details(tap_to_pay_devices')])
    /\ frame_idx' = frame_idx + 1
    /\ UNCHANGED <<fps, frame_shape, pc, summary, summary_calls, report, stats,
                   generate_report>>

\* Python's sum(1 for frame in usage_data if frame['active_phone_usage'])
CountActivePhone(data) ==
    Cardinality({i \in 1..Len(data) : data[i].active_phone_usage})

\* Python's sum(1 for frame in usage_data if frame.get("tap_to_pay_usage", False))
CountActiveTap(data) ==
    Cardinality({i \in 1..Len(data) : data[i].tap_to_pay_usage})

\* the report utils.save_report(usage_data, ...) writes, for a non-empty list
save_report ==
    [total_frames |-> Len(usage_data),
     active_phone_usage_frames |-> CountActivePhone(usage_data),
     tap_to_pay_usage_frames |-> CountActiveTap(usage_data),
     phone_usage_percentage |->
         Frac(CountActivePhone(usage_data) * 100, Len(usage_data))]

\* cap.read() returns ret == False: the loop ends, and process_video runs to
\* its end: the report if config.GENERATE_REPORT, then the final statistics.
\* save_report divides by len(usage_data): on an empty list it raises
\* ZeroDivisionError, which leaves process_video (main exits on it).
EndOfVideo ==
    /\ pc = "loop"
    /\ IF generate_report /\ Len(usage_data) = 0
       THEN /\ pc' = "raised"
            /\ UNCHANGED <<report, stats>>
       ELSE /\ report' = IF generate_report THEN Some(save_report) ELSE report
            /\ stats' = Some(get_usage_statistics)
            /\ pc' = "returned"
    /\ UNCHANGED <<analyzerVars, usage_data, frame_idx, fps, frame_shape, frameOut,
                   summary, timerObs, trackObs, summary_calls, busy_frames,
                   generate_report>>

\* CloseSession as it would be if the duration were taken as start - end
CloseSession_reversed_duration(current_session, fr) ==
    [start_time |-> current_session.start_time,
     start_frame |-> current_session.start_frame,
     end_time |-> fr.timestamp,
     end_frame |-> fr.frame_idx,
     duration |-> FracSub(current_session.start_time, fr.timestamp)]

\* the session a run of active frames becomes when it is closed at frame fr
CloseSession(current_session, fr) ==
    [start_time |-> current_session.start_time,
     start_frame |-> current_session.start_frame,
     end_time |-> fr.timestamp,
     end_frame |-> fr.frame_idx,
     duration |-> FracSub(fr.timestamp, current_session.start_time)]

\* the loop `for frame in self.usage_data` from element i on; current is None
\* or Some(the open session); the result is <<usage_sessions, current>>
RECURSIVE SessionLoop(_, _, _, _)
SessionLoop(data, i, usage_sessions, current) ==
    IF i > Len(data) THEN <<usage_sessions, current>>
    ELSE IF data[i].active_phone_usage
    THEN IF current = None
         THEN SessionLoop(data, i + 1, usage_sessions,
                          Some([start_time |-> data[i].timestamp,
                                start_frame |-> data[i].frame_idx]))
         ELSE SessionLoop(data, i + 1, usage_sessions, current)
    ELSE IF current # None
         THEN SessionLoop(data, i + 1,
                          Append(usage_sessions, CloseSession(current[1], data[i])),
                          None)
         ELSE SessionLoop(data, i + 1, usage_sessions, current)

\* Python's sum(session['duration'] for session in usage_sessions)
RECURSIVE SumDurations(_)
SumDurations(sessions) ==
    IF sessions = <<>> THEN FracOfInt(0)
    ELSE FracAdd(SumDurations(SubSeq(sessions, 1, Len(sessions) - 1)),
                 sessions[Len(sessions)].duration)

\* get_usage_summary as it would be without the block that closes the
\* session still open after the last frame
get_usage_summary_dropping_open ==
    IF usage_data = <<>> THEN None
    ELSE LET usage_sessions == SessionLoop(usage_data, 1, <<>>, None)[1]
         IN  Some([total_frames |-> Len(usage_data),
                   active_frames |-> CountActivePhone(usage_data),
                   usage_percentage |->
                       Frac(CountActivePhone(usage_data) * 100, Len(usage_data)),
                   usage_sessions |-> usage_sessions,
                   total_usage_time |-> SumDurations(usage_sessions),
                   total_phone_hold_time |-> get_total_phone_hold_duration])

\* get_usage_summary(): None, or Some(the summary)
get_usage_summary ==
    IF usage_data = <<>> THEN None
    ELSE LET total_frames == Len(usage_data)
             active_phone_frames == CountActivePhone(usage_data)
             looped == SessionLoop(usage_data, 1, <<>>, None)
             usage_sessions ==
                 IF looped[2] # None
                 THEN Append(looped[1],
                             CloseSession(looped[2][1], usage_data[Len(usage_data)]))
                 ELSE looped[1]
         IN  Some([total_frames |-> total_frames,
                   active_frames |-> active_phone_frames,
                   usage_percentage |-> Frac(active_phone_frames * 100, total_frames),
                   usage_sessions |-> usage_sessions,
                   total_usage_time |-> SumDurations(usage_sessions),
                   total_phone_hold_time |-> get_total_phone_hold_duration])

\* the call as it would be if get_usage_summary consumed the records it scans
GetUsageSummary_draining ==
    /\ pc = "returned"
    /\ summary_calls < MaxSummaryCalls
    /\ summary' = [called |-> TRUE, result |-> get_usage_summary]
    /\ summary_calls' = summary_calls + 1
    /\ usage_data' = <<>>
    /\ UNCHANGED <<analyzerVars, frame_idx, fps, frame_shape, pc, generate_report,
                   report, stats, frameOut, timerObs, trackObs, busy_frames>>

\* main(): summary = processor.get_usage_summary(), after process_video returned
GetUsageSummary ==
    /\ pc = "returned"
    /\ summary_calls < MaxSummaryCalls
    /\ summary' = [called |-> TRUE, result |-> get_usage_summary]
    /\ summary_calls' = summary_calls + 1
    /\ UNCHANGED <<analyzerVars, videoVars, frameOut, timerObs, trackObs,
                   busy_frames>>

\* the capture delivers one of the frames of the video runs
VideoFrame ==
    /\ frame_idx < MaxFrames
    /\ \E f \in Frames : ProcessVideoFrame(f)

\* the capture of a long video delivers a frame; at most MaxBusyFrames of its
\* frames show anything
LongVideoFrame ==
    /\ frame_idx < MaxTrackFrames
    /\ \E f \in Frames :
          /\ f = EmptyFrame \/ busy_frames < MaxBusyFrames
          /\ ProcessVideoFrame(f)

\* the capture of a sparse video delivers a frame
SparseVideoFrame ==
    /\ frame_idx < MaxSparseFrames
    /\ \E f \in SparseFrames : ProcessVideoFrame(f)

\* the capture of an idle video delivers a frame; at most MaxBusyFrames of its
\* frames show anything
IdleVideoFrame ==
    /\ frame_idx < MaxIdleFrames
    /\ \E f \in IdleFrames :
          /\ f = EmptyFrame \/ busy_frames < MaxBusyFrames
          /\ ProcessVideoFrame(f)

\* the capture of a tracking run delivers a frame; at most MaxBusyFrames of
\* its frames show anything
TrackVideoFrame ==
    /\ frame_idx < MaxTrackFrames
    /\ \E f \in TrackFrames :
          /\ f = EmptyFrame \/ busy_frames < MaxBusyFrames
          /\ ProcessVideoFrame(f)

\* the capture delivers any frame
AnyVideoFrame ==
    /\ frame_idx < MaxClassifyFrames
    /\ \E f \in AllFrames : ProcessVideoFrame(f)

NextVideo ==
    \/ VideoFrame
    \/ EndOfVideo
    \/ GetUsageSummary

NextLongVideo ==
    \/ LongVideoFrame
    \/ EndOfVideo
    \/ GetUsageSummary

NextClassify ==
    \/ AnyVideoFrame
    \/ EndOfVideo

NextSparse ==
    \/ SparseVideoFrame
    \/ EndOfVideo

NextIdle ==
    \/ IdleVideoFrame
    \/ EndOfVideo

NextTrack ==
    \/ TrackVideoFrame
    \/ EndOfVideo

\* process_video on a video of at most MaxFrames frames, then the summary
Spec == Init /\ [][NextVideo]_vars

\* process_video on a long video that is mostly empty
SpecLongVideo == Init /\ [][NextLongVideo]_vars

\* process_video on a short video of arbitrary frames
SpecClassify == InitAnyVideo /\ [][NextClassify]_vars

\* process_video on a short video in which phones or hands are often missing
SpecSparse == Init /\ [][NextSparse]_vars

\* process_video on a long video in which no phone is ever held
SpecIdleVideo == Init /\ [][NextIdle]_vars

\* process_video on a long video with at times one phone and at times two
SpecTrack == Init /\ [][NextTrack]_vars

(***************************************************************************)
(* Properties of the hold timer                                            *)
(***************************************************************************)
\* C1 (as stated): on the calls held = [F,T,T,T,F] at clock [0,1,2,3,4],
\* get_phone_hold_duration() is 1, 2, 3 after the calls at 1, 2, 3 and
\* get_total_phone_hold_duration() is 3 after the call at 4; after a further
\* hold from 5 to 6 the total is 4.
C1_HoldExampleAsStated ==
    /\ script_pos = 2 => get_phone_hold_duration = 1
    /\ script_pos = 3 => get_phone_hold_duration = 2
    /\ script_pos = 4 => get_phone_hold_duration = 3
    /\ script_pos = 5 => get_total_phone_hold_duration = 3
    /\ script_pos = 7 => get_total_phone_hold_duration = 4

\* C1 (amended): on the same calls get_phone_hold_duration() is 0, 1, 2 after
\* the calls at 1, 2, 3 (the hold starts at the first held call, and the timer
\* is the time since then), get_total_phone_hold_duration() is 2 after the call
\* at 4, and it is still 2 after the further hold from 5 to 6, whose only held
\* call is the one that starts it.
C1_HoldExample ==
    /\ script_pos = 2 => get_phone_hold_duration = 0
    /\ script_pos = 3 => get_phone_hold_duration = 1
    /\ script_pos = 4 => get_phone_hold_duration = 2
    /\ script_pos = 5 => get_total_phone_hold_duration = 2
    /\ script_pos = 6 => get_total_phone_hold_duration = 2
    /\ script_pos = 7 => get_total_phone_hold_duration = 2

\* the whole worked example has been played
C1_Witness == script_pos = 7 /\ timer_calls = 7 /\ ~is_phone_being_held

\* C4: an update_phone_timer call with held input h at clock t takes exactly
\* one of the four transitions: Released+held starts a hold at t with timer 0;
\* Held+held recomputes the timer as t - hold_start and changes nothing else;
\* Held+not-held commits the timer to the accumulated duration, zeroes the
\* timer, clears hold_start and releases; Released+not-held changes nothing.
C4_FourTransitions ==
    [][timer_calls' = timer_calls + 1 =>
        LET t == clock'[1]
            h == held_input'
        IN  /\ (~is_phone_being_held /\ h) =>
                  /\ phone_hold_start_time' = Some(t)
                  /\ is_phone_being_held' = TRUE
                  /\ current_phone_timer' = 0
                  /\ phone_hold_duration' = phone_hold_duration
            /\ (is_phone_being_held /\ h) =>
                  /\ current_phone_timer' = t - phone_hold_start_time[1]
                  /\ phone_hold_start_time' = phone_hold_start_time
                  /\ is_phone_being_held' = TRUE
                  /\ phone_hold_duration' = phone_hold_duration
            /\ (is_phone_being_held /\ ~h) =>
                  /\ phone_hold_duration' = phone_hold_duration + current_phone_timer
                  /\ current_phone_timer' = 0
                  /\ phone_hold_start_time' = None
                  /\ is_phone_being_held' = FALSE
            /\ (~is_phone_being_held /\ ~h) =>
                  /\ phone_hold_start_time' = phone_hold_start_time
                  /\ is_phone_being_held' = is_phone_being_held
                  /\ current_phone_timer' = current_phone_timer
                  /\ phone_hold_duration' = phone_hold_duration]_vars

\* a second hold is running after a first one was committed: every one of the
\* four transitions has been taken
C4_Witness ==
    /\ phone_hold_duration > 0
    /\ is_phone_being_held
    /\ current_phone_timer > 0
    /\ timer_calls = MaxTimerCalls

\* C5: while the clock has never gone back, phone_hold_duration never
\* decreases, and it changes only on the call that releases a hold.
C5_AccumulatedMonotone ==
    [][clock_ok' =>
        /\ phone_hold_duration' >= phone_hold_duration
        /\ phone_hold_duration' # phone_hold_duration =>
              /\ timer_calls' = timer_calls + 1
              /\ is_phone_being_held
              /\ ~held_input'
              /\ ~is_phone_being_held']_vars

\* two holds have been committed under a clock that never went back, and a
\* third one is running
C5_Witness ==
    /\ clock_ok
    /\ phone_hold_duration >= 3
    /\ is_phone_being_held
    /\ current_phone_timer > 0

\* C6 (as stated): in every reachable state get_phone_hold_duration() is
\* current_phone_timer if Held and 0 otherwise, and
\* get_total_phone_hold_duration() is phone_hold_duration plus
\* current_phone_timer if Held and phone_hold_duration otherwise.
C6_QueriesAsStated ==
    /\ get_phone_hold_duration =
          (IF is_phone_being_held THEN current_phone_timer ELSE 0)
    /\ get_total_phone_hold_duration =
          phone_hold_duration + (IF is_phone_being_held THEN current_phone_timer ELSE 0)

(***************************************************************************)
(* Properties of the classifier                                            *)
(***************************************************************************)
\* the hand is within the threshold of the device center, both in pixels
WithinThreshold(dev, hand) ==
    LET hand_x == FracMul(hand.center[1], FracOfInt(frame_shape[2]))
        hand_y == FracMul(hand.center[2], FracOfInt(frame_shape[1]))
        dx == FracSub(dev.center[1], hand_x)
        dy == FracSub(dev.center[2], hand_y)
        square == FracAdd(FracMul(dx, dx), FracMul(dy, dy))
    IN  FracLeq(square, FracOfInt(PHONE_HAND_DISTANCE_THRESHOLD
                                    * PHONE_HAND_DISTANCE_THRESHOLD))

\* the hand is at exactly the threshold distance of the device center
AtThreshold(dev, hand) ==
    LET hand_x == FracMul(hand.center[1], FracOfInt(frame_shape[2]))
        hand_y == FracMul(hand.center[2], FracOfInt(frame_shape[1]))
        dx == FracSub(dev.center[1], hand_x)
        dy == FracSub(dev.center[2], hand_y)
        square == FracAdd(FracMul(dx, dx), FracMul(dy, dy))
    IN  FracEq(square, FracOfInt(PHONE_HAND_DISTANCE_THRESHOLD
                                   * PHONE_HAND_DISTANCE_THRESHOLD))

\* C3: after a frame is processed, every phone and every tap-to-pay device
\* is held iff some hand of the frame, converted to pixels as
\* (x * width, y * height), is at distance <= PHONE_HAND_DISTANCE_THRESHOLD
\* of the device's center; the boundary counts as held, no hand as not held.
C3_HeldIffHandWithinThreshold ==
    /\ \A i \in 1..Len(phones) :
          phones[i].is_being_held <=>
              \E j \in 1..Len(hands) : WithinThreshold(phones[i], hands[j])
    /\ \A i \in 1..Len(tap_to_pay_devices) :
          tap_to_pay_devices[i].is_being_held <=>
              \E j \in 1..Len(hands) : WithinThreshold(tap_to_pay_devices[i], hands[j])

\* a frame with two phones and two hands: one phone is held by a hand at
\* exactly the threshold and by no nearer hand, the other is not held
C3_Witness ==
    /\ Len(phones) = 2
    /\ Len(hands) = 2
    /\ \E i \in 1..2 :
          /\ phones[i].is_being_held
          /\ \E j \in 1..2 : AtThreshold(phones[i], hands[j])
          /\ \A j \in 1..2 : WithinThreshold(phones[i], hands[j])
                                => AtThreshold(phones[i], hands[j])
    /\ \E i \in 1..2 : ~phones[i].is_being_held

(***************************************************************************)
(* Properties of the session extractor                                     *)
(***************************************************************************)
\* the activity flags of the recorded frames
Activity == [i \in 1..Len(usage_data) |-> usage_data[i].active_phone_usage]

\* the sessions of the last summary
Sessions == summary.result[1].usage_sessions

\* get_usage_summary has returned a summary of the recorded frames
Summarized == summary.called /\ summary.result # None

\* C2 (as stated): for the activity [F,F,T,T,T,F,F,T,F] of frames 0..8 with
\* timestamps i/30 the summary has exactly two sessions, frames 2..4 and
\* frame 7 alone, the second with start_time = end_time and duration 0.
C2_SessionExampleAsStated ==
    (/\ Summarized
     /\ fps = 30
     /\ Activity = <<FALSE, FALSE, TRUE, TRUE, TRUE, FALSE, FALSE, TRUE, FALSE>>)
    => /\ Len(Sessions) = 2
       /\ Sessions[1].start_frame = 2
       /\ Sessions[1].end_frame = 4
       /\ Sessions[2].start_frame = 7
       /\ Sessions[2].end_frame = 7
       /\ FracEq(Sessions[2].start_time, Sessions[2].end_time)
       /\ FracEq(Sessions[2].duration, FracOfInt(0))

\* the record index at which the trailing run of active frames starts
TrailingRunStart ==
    CHOOSE i \in 1..Len(usage_data) :
        /\ \A j \in i..Len(usage_data) : Activity[j]
        /\ i > 1 => ~Activity[i - 1]

\* C7: when the last recorded frame is active, the summary's last session is
\* the trailing run of active frames: it starts at the run's first frame and
\* ends at the last record's frame_idx and timestamp.
C7_TrailingSessionKept ==
    (Summarized /\ Activity[Len(usage_data)])
    => /\ Len(Sessions) >= 1
       /\ LET last_session == Sessions[Len(Sessions)]
              last_frame == usage_data[Len(usage_data)]
          IN  /\ last_session.start_frame = usage_data[TrailingRunStart].frame_idx
              /\ last_session.end_frame = last_frame.frame_idx
              /\ last_session.end_time = last_frame.timestamp

\* the video ended in a run of several active frames, after an earlier session
C7_Witness ==
    /\ Summarized
    /\ Activity[Len(usage_data)]
    /\ Len(Sessions) >= 2
    /\ TrailingRunStart < Len(usage_data)

\* the record indices at which a maximal run of active frames starts
RunStarts == {i \in 1..Len(usage_data) : Activity[i] /\ (i > 1 => ~Activity[i - 1])}

\* frame indices and timestamps increase strictly along usage_data
StrictlyIncreasing ==
    \A i \in 1..(Len(usage_data) - 1) :
        /\ usage_data[i].frame_idx < usage_data[i + 1].frame_idx
        /\ FracLess(usage_data[i].timestamp, usage_data[i + 1].timestamp)

RECURSIVE DurationTotal(_, _)
DurationTotal(sessions, k) ==
    IF k = 0 THEN FracOfInt(0)
    ELSE FracAdd(DurationTotal(sessions, k - 1), sessions[k].duration)

\* C8: the summary lists exactly one session per maximal run of active
\* frames, each starting at the run's first frame, in chronological order,
\* with start_frame <= end_frame and duration >= 0, each ending strictly
\* before the next starts; total_usage_time is the sum of the durations.
C8_SessionsAreTheRuns ==
    (Summarized /\ StrictlyIncreasing)
    => /\ Len(Sessions) = Cardinality(RunStarts)
       /\ {Sessions[k].start_frame : k \in 1..Len(Sessions)}
             = {usage_data[i].frame_idx : i \in RunStarts}
       /\ \A k \in 1..Len(Sessions) :
             /\ Sessions[k].start_frame <= Sessions[k].end_frame
             /\ FracLeq(FracOfInt(0), Sessions[k].duration)
             /\ FracLeq(Sessions[k].start_time, Sessions[k].end_time)
       /\ \A k \in 1..(Len(Sessions) - 1) :
             /\ Sessions[k].end_frame < Sessions[k + 1].start_frame
             /\ FracLess(Sessions[k].end_time, Sessions[k + 1].start_time)
       /\ FracEq(summary.result[1].total_usage_time,
                 DurationTotal(Sessions, Len(Sessions)))

\* three runs, the first of several frames, the last one ending the video
C8_Witness ==
    /\ Summarized
    /\ Len(Sessions) = 3
    /\ Sessions[1].start_frame + 1 < Sessions[1].end_frame
    /\ Activity[Len(usage_data)]
    /\ FracLess(FracOfInt(0), summary.result[1].total_usage_time)

\* C9: a get_usage_summary call changes neither usage_data nor any hold
\* timer or history variable of the analyzer, and a call that follows another
\* returns what that one returned.
C9_SummaryIsPure ==
    [][summary_calls' = summary_calls + 1 =>
        /\ usage_data' = usage_data
        /\ timerVars' = timerVars
        /\ trackVars' = trackVars
        /\ summary.called => summary' = summary]_vars

\* the summary of a video with sessions has been taken twice
C9_Witness ==
    /\ summary_calls = 2
    /\ Summarized
    /\ Len(Sessions) >= 2
    /\ is_phone_being_held

(***************************************************************************)
(* Properties of the tracking history                                      *)
(***************************************************************************)
\* the retention window of the two history buffers
MaxHistory == 2 * Max(MIN_MOTION_FRAMES, MAX_INACTIVE_FRAMES)

\* the n entries last appended, in the order they were appended
MostRecent(log, n) == [i \in 1..n |-> log[Len(log) - n + i]]

\* C10: neither history buffer is ever longer than max_history =
\* 2 * max(MIN_MOTION_FRAMES, MAX_INACTIVE_FRAMES), and once more than
\* max_history entries were appended each buffer is the max_history entries
\* last appended, in their order.
C10_HistoryWindow ==
    /\ Len(phone_positions) <= MaxHistory
    /\ Len(active_usage_history) <= MaxHistory
    /\ Len(appended_positions) > MaxHistory =>
          phone_positions = MostRecent(appended_positions, MaxHistory)
    /\ Len(appended_active) > MaxHistory =>
          active_usage_history = MostRecent(appended_active, MaxHistory)

\* two entries were dropped, one of them a phone position, and a held phone is
\* among the retained entries
C10_Witness ==
    /\ Len(appended_positions) = MaxHistory + 2
    /\ appended_positions[2] # None
    /\ \E i \in 1..Len(active_usage_history) : active_usage_history[i]

(***************************************************************************)
(* Properties of the temporal filter                                       *)
(***************************************************************************)
\* the phone list the classifier produces for a frame, before the filter
Classified(f) ==
    analyze_phone_hand_interaction(detect_devices(f).phones, detect_hands(f),
                                   frame_shape)

\* the two verdict flags of every device of a list
Flags(devs) ==
    [i \in 1..Len(devs) |-> <<devs[i].is_being_held, devs[i].is_active>>]

\* C11: whenever active_usage_history (as the filter reads it, after the
\* frame's entry was appended) has fewer than 3 * MAX_INACTIVE_FRAMES
\* entries, the phone list process_frame returns has every phone's
\* is_being_held and is_active as the classifier set them.
C11_FilterNoOpOnShortHistory ==
    [][\A f \in Frames :
          (ProcessVideoFrame(f)
             /\ Len(active_usage_history') < 3 * MAX_INACTIVE_FRAMES)
          => /\ Len(phones') = Len(Classified(f))
             /\ Flags(phones') = Flags(Classified(f))]_vars

\* the filter has passed a held phone through while the history was full
C11_Witness ==
    /\ Len(active_usage_history) = MaxHistory
    /\ Len(active_usage_history) < 3 * MAX_INACTIVE_FRAMES
    /\ AnyHeld(phones)
    /\ phones[1].is_active

\* C12: in every reachable state, for every phone list the classifier
\* produces (no phone, a held phone, a phone that is not held),
\* apply_temporal_filtering turns no is_being_held or is_active
\* from false to true, and leaves both flags of every phone at their
\* pre-filter value.
C12_FilterChangesNoVerdict ==
    \A f \in Frames :
        LET before == Classified(f)
            after == apply_temporal_filtering(before, active_usage_history)
        IN  /\ Len(after) = Len(before)
            /\ \A i \in 1..Len(before) :
                  /\ after[i].is_being_held => before[i].is_being_held
                  /\ after[i].is_active => before[i].is_active
            /\ Flags(after) = Flags(before)

\* the filter has run on a phone that is not held, on a full history without
\* any activity
C12_Witness ==
    /\ Len(active_usage_history) = MaxHistory
    /\ SumBool(active_usage_history) = 0
    /\ phones # <<>>
    /\ ~AnyHeld(phones)
    /\ ~phones[1].is_active

(***************************************************************************)
(* Properties of the end of the video                                      *)
(***************************************************************************)
\* C13 (as stated): when the video ends with zero frames processed (empty
\* usage_data and empty active_usage_history) and GENERATE_REPORT enabled,
\* process_video returns without a division fault: save_report writes a usage
\* percentage of 0, get_usage_statistics returns its all-zero record, and
\* get_usage_summary returns no summary.
C13_EmptyVideoSafeAsStated ==
    (/\ pc # "loop"
     /\ generate_report
     /\ usage_data = <<>>
     /\ active_usage_history = <<>>)
    => /\ pc = "returned"
       /\ report # None
       /\ FracEq(report[1].phone_usage_percentage, FracOfInt(0))
       /\ stats # None
       /\ stats[1].total_frames = 0
       /\ FracEq(stats[1].usage_percentage, FracOfInt(0))
       /\ summary.called => summary.result = None

(***************************************************************************)
(* Properties of process_frame                                             *)
(***************************************************************************)
\* the last element of a non-empty sequence
Last(s) == s[Len(s)]

\* C14: a frame with an empty phone list or an empty hand list is processed
\* without error and as "nothing held": no returned phone is held, False is
\* appended to active_usage_history, the hold timer gets a not-held input,
\* which commits and ends a running hold, and if the phone list is empty None
\* is appended to phone_positions.
C14_MissingInputIsNothingHeld ==
    [][\A f \in SparseFrames :
          (/\ ProcessVideoFrame(f)
           /\ detect_devices(f).phones = <<>> \/ detect_hands(f) = <<>>)
          => /\ pc' = "loop"
             /\ frame_idx' = frame_idx + 1
             /\ ~AnyHeld(phones')
             /\ appended_active' = Append(appended_active, FALSE)
             /\ Last(active_usage_history') = FALSE
             /\ timer_calls' = timer_calls + 1
             /\ ~held_input'
             /\ ~is_phone_being_held'
             /\ phone_hold_start_time' = None
             /\ is_phone_being_held =>
                   phone_hold_duration' = phone_hold_duration + current_phone_timer
             /\ detect_devices(f).phones = <<>> =>
                   /\ appended_positions' = Append(appended_positions, None)
                   /\ Last(phone_positions') = None]_vars

\* a frame with a phone and no hand has ended a hold of more than one frame,
\* and a frame with a hand and no phone came before the hold
C14_Witness ==
    /\ phones # <<>>
    /\ hands = <<>>
    /\ ~is_phone_being_held
    /\ phone_hold_duration > 0
    /\ Len(usage_data) = MaxSparseFrames
    /\ usage_data[1].phones_detected = 0
    /\ usage_data[1].hands_detected > 0


\* the frame with its tap-to-pay detections removed
WithoutTap(f) ==
    LET NotTap(b) == b.class_id # CLASS_TAP_TO_PAY
    IN  [boxes |-> SelectSeq(f.boxes, NotTap), hands |-> f.hands]

\* the step leaves the phone side of the analyzer and of the frame record as
\* processing frame g in place of the frame read would have left it
PhoneSideAsFor(g) ==
    LET ph == Classified(g)
        filtered == apply_temporal_filtering(ph, active_usage_history')
        rec == Last(usage_data')
    IN  /\ update_phone_timer(ph, NextTick)
        /\ update_tracking(ph)
        /\ phones' = filtered
        /\ hands' = detect_hands(g)
        /\ rec.frame_idx = frame_idx
        /\ rec.timestamp = Frac(frame_idx, fps)
        /\ rec.phones_detected = Len(filtered)
        /\ rec.hands_detected = Len(detect_hands(g))
        /\ rec.active_phone_usage = AnyHeld(filtered)
        /\ rec.phone_details = Details(filtered)

\* C15 (as stated): a frame leaves the hold timer, phone_positions,
\* active_usage_history, the phones' verdicts and the record's
\* active_phone_usage as the same frame without its tap-to-pay detections
\* would, and the tap-to-pay detections change nothing of the frame record
\* but tap_to_pay_usage and tap_to_pay_details.
C15_NoCrossClassAsStated ==
    [][\A f \in Frames :
          ProcessVideoFrame(f) =>
             /\ PhoneSideAsFor(WithoutTap(f))
             /\ Last(usage_data').tap_to_pay_detected =
                   Len(detect_devices(WithoutTap(f)).tap_to_pay_devices)]_vars

\* C15 (amended): a frame leaves the hold timer, phone_positions,
\* active_usage_history, the phones' verdicts and the phone fields of the
\* frame record as the same frame without its tap-to-pay detections would;
\* the tap-to-pay detections change only tap_to_pay_detected,
\* tap_to_pay_usage and tap_to_pay_details of the record.
C15_NoCrossClass ==
    [][\A f \in Frames :
          ProcessVideoFrame(f) =>
             LET g == WithoutTap(f)
                 tp == analyze_tap_to_pay_hand_interaction(
                           detect_devices(f).tap_to_pay_devices, detect_hands(f),
                           frame_shape)
                 rec == Last(usage_data')
             IN  /\ PhoneSideAsFor(g)
                 /\ detect_devices(g).tap_to_pay_devices = <<>>
                 /\ rec.tap_to_pay_detected = Len(tp)
                 /\ rec.tap_to_pay_usage = AnyHeld(tp)
                 /\ rec.tap_to_pay_details = Details(tp)]_vars

\* a frame with a held tap-to-pay device next to a phone nobody holds has
\* ended a hold of the phone
C15_Witness ==
    /\ AnyHeld(tap_to_pay_devices)
    /\ phones # <<>>
    /\ ~AnyHeld(phones)
    /\ ~is_phone_being_held
    /\ phone_hold_duration > 0
    /\ Last(usage_data).tap_to_pay_usage
    /\ ~Last(usage_data).active_phone_usage


\* the part of C16 that every state satisfies: the i-th record (from 0) has
\* frame_idx i and timestamp i / fps, and every frame read so far was
\* classified, timed, tracked and recorded exactly once
FrameSynchronous ==
    /\ Len(usage_data) = frame_idx
    /\ \A i \in 1..Len(usage_data) :
          /\ usage_data[i].frame_idx = i - 1
          /\ FracEq(usage_data[i].timestamp, Frac(i - 1, fps))
    /\ timer_calls = frame_idx
    /\ Len(appended_active) = frame_idx
    /\ Len(appended_positions) = frame_idx

\* the part of C16 that every step satisfies: a frame is read only while the
\* loop runs, and its turn classifies it, gives the classification to the
\* timer and to the history, filters reading the history that has the
\* frame's entry, and appends the record of the filtered list under the
\* index the frame was read at; once the source is exhausted nothing is read
FrameTurn ==
    /\ \A f \in Frames :
          ProcessVideoFrame(f) =>
             LET ph == Classified(f)
                 rec == Last(usage_data')
             IN  /\ pc = "loop" /\ pc' = "loop"
                 /\ held_input' = AnyHeld(ph)
                 /\ appended_active' = Append(appended_active, AnyHeld(ph))
                 /\ appended_positions' = Append(appended_positions, PositionOf(ph))
                 /\ phones' = apply_temporal_filtering(ph, active_usage_history')
                 /\ usage_data' = Append(usage_data, rec)
                 /\ rec.frame_idx = frame_idx
                 /\ rec.active_phone_usage = AnyHeld(phones')
                 /\ frame_idx' = frame_idx + 1
    /\ frame_idx' # frame_idx => frame_idx' = frame_idx + 1
    /\ pc # "loop" =>
          /\ pc' = pc
          /\ usage_data' = usage_data
          /\ frame_idx' = frame_idx
          /\ timer_calls' = timer_calls
    /\ (pc = "loop" /\ pc' # "loop") =>
          /\ usage_data' = usage_data
          /\ frame_idx' = frame_idx

\* C16: process_video takes the frames in increasing index order from 0,
\* each once, and classifies, times, tracks, filters and records a frame
\* before the next is read; so usage_data[i].frame_idx = i and
\* usage_data[i].timestamp = i / fps for every record, and no frame is
\* processed after the source is exhausted.
C16_FrameSynchronousLoop == [](FrameSynchronous) /\ [][FrameTurn]_vars

\* a video of MaxFrames frames with a hold in it has been processed to its end
C16_Witness ==
    /\ pc = "returned"
    /\ Len(usage_data) = MaxFrames
    /\ Last(usage_data).frame_idx = MaxFrames - 1
    /\ phone_hold_duration > 0


\* C17: every phone and every tap-to-pay device process_frame returned has
\* is_active equal to is_being_held, whatever the frame and the history; a
\* device that is not held is not reported active.
C17_ActiveIsHeld ==
    /\ \A i \in 1..Len(phones) :
          phones[i].is_active = phones[i].is_being_held
    /\ \A i \in 1..Len(tap_to_pay_devices) :
          tap_to_pay_devices[i].is_active = tap_to_pay_devices[i].is_being_held

\* after a hold earlier in the video, a frame shows a held tap-to-pay device
\* next to a phone nobody holds
C17_Witness ==
    /\ tap_to_pay_devices # <<>>
    /\ tap_to_pay_devices[1].is_being_held
    /\ tap_to_pay_devices[1].is_active
    /\ phones # <<>>
    /\ ~phones[1].is_being_held
    /\ ~phones[1].is_active
    /\ SumBool(active_usage_history) > 0
    /\ Len(active_usage_history) = MaxHistory


(***************************************************************************)
(* Properties of the final statistics                                      *)
(***************************************************************************)
\* C18 (as stated): the statistics process_video takes at the end of a video
\* of N frames have total_frames = N and active_frames = the number of
\* records with active_phone_usage, and so agree with total_frames,
\* active_frames and usage_percentage of get_usage_summary.
C18_StatisticsCountAllFramesAsStated ==
    (pc = "returned" /\ stats # None) =>
        /\ stats[1].total_frames = Len(usage_data)
        /\ stats[1].active_frames = CountActivePhone(usage_data)
        /\ (summary.called /\ summary.result # None) =>
              /\ summary.result[1].total_frames = stats[1].total_frames
              /\ summary.result[1].active_frames = stats[1].active_frames
              /\ FracEq(summary.result[1].usage_percentage,
                        stats[1].usage_percentage)


(***************************************************************************)
(* Reachability of the extended-inactivity branch                          *)
(***************************************************************************)
\* C19 (as stated): with MIN_MOTION_FRAMES = 3 and MAX_INACTIVE_FRAMES = 10,
\* once 3 * MAX_INACTIVE_FRAMES consecutive frames without a held phone
\* have been processed, the filter's guard
\* len(active_usage_history) >= 3 * MAX_INACTIVE_FRAMES is satisfied, so
\* that the extended-inactivity branch is taken.
C19_InactivityBranchReachedAsStated ==
    (/\ Len(appended_active) >= 3 * MAX_INACTIVE_FRAMES
     /\ SumBool(appended_active) = 0)
    => Len(active_usage_history) >= 3 * MAX_INACTIVE_FRAMES


(***************************************************************************)
(* Agreement of the views of a frame's phone activity                      *)
(***************************************************************************)
\* C20: after every process_frame call the hold timer's is_phone_being_held,
\* the last entry of active_usage_history and the frame record's
\* active_phone_usage (taken from the filtered phone list) all equal "some
\* phone of this frame is classified held".
C20_ViewsAgree ==
    [][\A f \in Frames :
          ProcessVideoFrame(f) =>
             LET held == AnyHeld(Classified(f))
             IN  /\ is_phone_being_held' = held
                 /\ Last(active_usage_history') = held
                 /\ Last(usage_data').active_phone_usage = held
                 /\ AnyHeld(phones') = held]_vars

\* the three views agree on "held" in a frame that follows a frame on which
\* they agreed on "not held" while a tap-to-pay device was held
C20_Witness ==
    /\ Len(usage_data) >= 2
    /\ is_phone_being_held
    /\ Last(active_usage_history)
    /\ Last(usage_data).active_phone_usage
    /\ ~usage_data[Len(usage_data) - 1].active_phone_usage
    /\ usage_data[Len(usage_data) - 1].tap_to_pay_usage


(***************************************************************************)
(* Further properties of the hold timer                                    *)
(***************************************************************************)
\* C21: while the clock has never gone back, get_total_phone_hold_duration()
\* after an update_phone_timer call is not below its value before the call,
\* whatever the held input; in particular not on the call that releases a
\* hold and not on the call that starts one.
C21_TotalMonotone ==
    [][clock_ok' =>
          get_total_phone_hold_duration' >= get_total_phone_hold_duration]_vars

\* under a clock that never went back, a hold with time on it was released
\* and the next hold has just started
C21_Witness ==
    /\ clock_ok
    /\ held_input
    /\ is_phone_being_held
    /\ current_phone_timer = 0
    /\ phone_hold_duration > 0
    /\ get_total_phone_hold_duration = phone_hold_duration


(***************************************************************************)
(* Session durations                                                       *)
(***************************************************************************)
\* the number of active frames in the run that starts at record i
RunLength(i) ==
    LET last == CHOOSE j \in i..Len(usage_data) :
                    /\ \A m \in i..j : Activity[m]
                    /\ j < Len(usage_data) => ~Activity[j + 1]
    IN  last - i + 1

\* the number of active frames in the run a session of the summary stands for
ActiveFramesOf(session) == RunLength(session.start_frame + 1)

\* C22 (as stated): with timestamps i / fps, the duration of a session
\* depends only on the number of active frames of its run: two sessions of
\* the summary whose runs have the same number of active frames have the
\* same duration, whether an inactive frame or the end of the video ended
\* the run.
C22_DurationByRunLengthAsStated ==
    Summarized =>
        \A k1, k2 \in 1..Len(Sessions) :
            ActiveFramesOf(Sessions[k1]) = ActiveFramesOf(Sessions[k2])
            => FracEq(Sessions[k1].duration, Sessions[k2].duration)


(***************************************************************************)
(* Alignment of the two history buffers                                    *)
(***************************************************************************)
Min(a, b) == IF a <= b THEN a ELSE b

\* the position a frame record stands for: the center of its first phone in
\* detector order, or None when it has no phone
RecordedPosition(rec) ==
    IF rec.phones_detected = 0 THEN None
    ELSE get_phone_center(rec.phone_details[1].bbox)

\* C23: after n frames phone_positions and active_usage_history both have
\* min(n, max_history) entries, one per frame, and entry j of either is that
\* of the same frame, the (n - length + j)-th: the center of that frame's
\* first phone in detector order (held or not), or None if it had no phone,
\* and whether a phone was held in that frame.
C23_BuffersAligned ==
    LET n == Len(usage_data)
        len == Min(n, MaxHistory)
    IN  /\ Len(appended_positions) = n
        /\ Len(appended_active) = n
        /\ Len(phone_positions) = len
        /\ Len(active_usage_history) = len
        /\ \A j \in 1..len :
              LET rec == usage_data[n - len + j]
              IN  /\ phone_positions[j] = RecordedPosition(rec)
                  /\ active_usage_history[j] = rec.active_phone_usage

\* more than max_history frames were processed, and the buffers hold a frame
\* with one phone nobody held and a frame whose second phone was held
C23_Witness ==
    /\ Len(usage_data) > MaxHistory
    /\ Len(phone_positions) = MaxHistory
    /\ \E j \in 1..Len(phone_positions) :
          /\ phone_positions[j] = get_phone_center(BoxA.bbox)
          /\ ~active_usage_history[j]
    /\ \E j \in 1..Len(phone_positions) :
          /\ phone_positions[j] = get_phone_center(BoxB.bbox)
          /\ active_usage_history[j]


(***************************************************************************)
(* Invariants of the hold timer                                            *)
(***************************************************************************)
\* C24: in every reachable state of the hold timer, is_phone_being_held is
\* false exactly when phone_hold_start_time is None, and then
\* current_phone_timer is 0; while the clock has never gone back,
\* current_phone_timer and phone_hold_duration are not negative.
C24_TimerInvariants ==
    /\ (~is_phone_being_held) <=> (phone_hold_start_time = None)
    /\ ~is_phone_being_held => current_phone_timer = 0
    /\ clock_ok => /\ current_phone_timer >= 0
                   /\ phone_hold_duration >= 0

\* under a clock that never went back, a hold with time on it has been
\* released
C24_Witness ==
    /\ clock_ok
    /\ timer_calls >= 3
    /\ ~held_input
    /\ ~is_phone_being_held
    /\ phone_hold_start_time = None
    /\ current_phone_timer = 0
    /\ phone_hold_duration > 0

=============================================================================
